---------------------------- MODULE Spec2Model ----------------------------
(***************************************************************************)
(* Model of the z-wdt embedded watchdog framework (z_wdt.c and the pthread *)
(* platform layer watchdog_os.c).                                          *)
(*                                                                         *)
(* Threads: the timer thread started by watchdog_os_init, which runs       *)
(* z_wdt_process under the mutex every cadence, and caller threads.        *)
(*                                                                         *)
(* Granularity: a section of code that runs with the mutex held is one     *)
(* step for the threads that take the mutex.  z_wdt_feed takes no mutex,   *)
(* so it is split where another thread can get between its reads and       *)
(* writes: (checks, clock read) / (deadline write, scan for the next       *)
(* timeout) / (write of the cached next timeout).  z_wdt_process is one    *)
(* step per test of a slot, one for the call of the callback and one for   *)
(* its return.                                                             *)
(***************************************************************************)
EXTENDS Integers, FiniteSets, TLC

(* ------------------------------ bounds -------------------------------- *)
\* Number of channel slots of the model (16 in z_wdt.h).
WATCHDOG_MAX_CHANNELS == 2
\* The clock runs from 0 to MaxTime milliseconds.
MaxTime == 2
\* Reload periods passed to z_wdt_add are 0 (invalid) .. MaxPeriod.
MaxPeriod == 2

(* ----------------------------- constants ------------------------------ *)
\* Stand-in for INT64_MAX: the largest integer of TLC.  The code only
\* stores it and compares deadlines with it.
INT64_MAX == 2147483647

NULL == "NULL"

Ids == 0 .. (WATCHDOG_MAX_CHANNELS - 1)
\* Channel ids a caller may pass: one below and one above the valid range too.
ArgIds == -1 .. WATCHDOG_MAX_CHANNELS
Periods == 0 .. MaxPeriod
\* Callbacks a caller may register: none, one that only records the
\* timeout (watchdog_timeout_callback), one that feeds its own channel.
Callbacks == {NULL, "cb", "cbFeed"}
\* The payload registered with each callback.
UserDataOf(cb) == IF cb = NULL THEN NULL ELSE IF cb = "cb" THEN "u1" ELSE "u2"

\* The caller threads: "main" calls every function of the API; "task" is a
\* monitored task, which only feeds (task1_func .. task3_func of the test).
Threads == {"main", "task"}
\* The callers that run in the life-cycle specification Spec.
Callers == {"main"}

VARIABLES
    channels,               \* g_watchdog_ctx.channels
    next_timeout_channel,   \* g_watchdog_ctx.next_timeout_channel
    next_timeout_ticks,     \* g_watchdog_ctx.next_timeout_ticks
    initialized,            \* g_watchdog_ctx.initialized
    timer_running,          \* g_watchdog_ctx.timer_running
    timer_thread_running,   \* watchdog_os.c: timer_thread_running
    mutex,                  \* watchdog_mutex: "free", or the thread that holds it
    now,                    \* the monotonic clock, watchdog_get_ticks()
    tpc,                    \* timer thread: t_none, t_idle, t_scan, t_timeout, t_cb, t_done
    tid,                    \* z_wdt_process: loop variable id
    tcur,                   \* z_wdt_process: local current_ticks
    pc,                     \* per caller thread: where it is
    loc,                    \* per caller thread: arguments, locals, result
    exited,                 \* the process has called exit(1) or crashed
    fires,                  \* history: callback invocations of the slot's activation
    fed,                    \* history: latest clock + period of a returned successful feed
    due,                    \* history: slots expired, with callback, when the sweep read the clock
    touched,                \* history: slots written by a feed during the running sweep
    reg,                    \* history: callback and user_data passed to the add of each slot
    called                  \* the callback call in progress: id, callback, user_data

vars == <<channels, next_timeout_channel, next_timeout_ticks, initialized,
          timer_running, timer_thread_running, mutex, now, tpc, tid, tcur,
          pc, loc, exited, fires, fed, due, touched, reg, called>>

ctx == <<channels, next_timeout_channel, next_timeout_ticks, initialized, timer_running>>
timer == <<tpc, tid, tcur>>
hist == <<fires, fed, due, touched, reg, called>>

(* --------------------------- data structures -------------------------- *)
\* struct watchdog_channel after memset(0).
ZeroChannel == [reload_period |-> 0, timeout_abs_ticks |-> 0, user_data |-> NULL,
                callback |-> NULL, active |-> FALSE]

\* No add has filled the slot; no callback call is in progress.
NoReg == [cb |-> NULL, ud |-> NULL]
NoCall == [id |-> -1, cb |-> NULL, ud |-> NULL]

\* The locals of a call: arguments (id, p, cb, ud), the clock read (ft), the
\* scan result of feed (nx), the result (res); old is history: the deadline
\* the feed or the add has overwritten; had and mon are history: the slots that were
\* active and the monitoring flag in the context z_wdt_init has zeroed.
NoLoc == [op |-> "none", id |-> -1, ft |-> 0, nx |-> -1, old |-> 0, p |-> 0,
          cb |-> NULL, ud |-> NULL, res |-> 0, had |-> {}, mon |-> FALSE]

watchdog_ms_to_ticks(ms) == ms

\* watchdog_get_next_timeout_channel, over a channel table.
RECURSIVE NextScan(_, _, _, _)
NextScan(chs, id, next_channel, next_timeout) ==
    IF id >= WATCHDOG_MAX_CHANNELS THEN next_channel
    ELSE IF chs[id].active /\ chs[id].timeout_abs_ticks < next_timeout
         THEN NextScan(chs, id + 1, id, chs[id].timeout_abs_ticks)
         ELSE NextScan(chs, id + 1, next_channel, next_timeout)

watchdog_get_next_timeout_channel(chs) == NextScan(chs, 0, -1, INT64_MAX)

\* The two fields watchdog_schedule_next_timeout writes, for next_channel.
ScheduledChannel(next_channel) == next_channel
ScheduledTicks(chs, next_channel) ==
    IF next_channel >= 0 THEN chs[next_channel].timeout_abs_ticks ELSE INT64_MAX

\* watchdog_schedule_next_timeout run in one piece (with the mutex held).
watchdog_schedule_next_timeout(chs) ==
    /\ next_timeout_channel' = ScheduledChannel(watchdog_get_next_timeout_channel(chs))
    /\ next_timeout_ticks' = ScheduledTicks(chs, watchdog_get_next_timeout_channel(chs))

(* ------------------------------ helpers ------------------------------- *)
\* The timer thread is inside z_wdt_process, past its guard.
SweepRunning == tpc \in {"t_scan", "t_timeout", "t_cb"}

Max(a, b) == IF a >= b THEN a ELSE b

\* A caller thread returns: the result and the call it belongs to stay
\* visible in loc until the thread's next step (Return).
Ret(c, op, id, res) ==
    /\ pc' = [pc EXCEPT ![c] = "ret"]
    /\ loc' = [loc EXCEPT ![c] = [NoLoc EXCEPT !.op = op, !.id = id, !.res = res]]

\* A call that takes the mutex while the timer thread holds it waits in
\* watchdog_mutex_lock() with its arguments.
Block(c, op, id, reload_period, callback, user_data) ==
    /\ pc' = [pc EXCEPT ![c] = "lock"]
    /\ loc' = [loc EXCEPT ![c] = [NoLoc EXCEPT !.op = op, !.id = id, !.p = reload_period,
                                     !.cb = callback, !.ud = user_data]]

\* Faulty variant of FeedDeadline: the period is not added.
FeedDeadlineNoPeriod(current_ticks, reload_period) == current_ticks

\* The deadline z_wdt_feed and z_wdt_resume store.
FeedDeadline(current_ticks, reload_period) ==
    current_ticks + watchdog_ms_to_ticks(reload_period)

\* Faulty variant of Expired: the deadline is not compared.
ExpiredAnyActive(ch, current_ticks) == ch.active

\* Faulty variant of Expired: the comparison is < instead of <=.
ExpiredStrict(ch, current_ticks) ==
    ch.active /\ ch.timeout_abs_ticks < current_ticks

\* The condition of z_wdt_process under which a slot has timed out.
Expired(ch, current_ticks) ==
    ch.active /\ ch.timeout_abs_ticks <= current_ticks

\* Faulty variant of ProcessGuard: timer_running is not looked at.
GuardInitializedOnly == initialized

\* The guard of z_wdt_process: it does nothing unless this holds.
ProcessGuard == initialized /\ timer_running

\* Faulty variant of FindUnused: the loop takes the highest inactive slot.
RECURSIVE FindUnusedFromTop(_, _)
FindUnusedFromTop(chs, id) ==
    IF id >= WATCHDOG_MAX_CHANNELS THEN -1
    ELSE IF FindUnusedFromTop(chs, id + 1) >= 0 THEN FindUnusedFromTop(chs, id + 1)
    ELSE IF ~chs[id].active THEN id
    ELSE -1

\* Faulty variant of FindUnused: the loop stops one slot early.
RECURSIVE FindUnusedOffByOne(_, _)
FindUnusedOffByOne(chs, id) ==
    IF id >= WATCHDOG_MAX_CHANNELS - 1 THEN -1
    ELSE IF ~chs[id].active THEN id
    ELSE FindUnusedOffByOne(chs, id + 1)

\* The lowest inactive slot from id on, or -1: the loop of z_wdt_add.
RECURSIVE FindUnused(_, _)
FindUnused(chs, id) ==
    IF id >= WATCHDOG_MAX_CHANNELS THEN -1
    ELSE IF ~chs[id].active THEN id
    ELSE FindUnused(chs, id + 1)

(* -------------------------------- Init -------------------------------- *)
\* static struct watchdog_context g_watchdog_ctx = {0}; no thread started.
Init ==
    /\ channels = [id \in Ids |-> ZeroChannel]
    /\ next_timeout_channel = 0
    /\ next_timeout_ticks = 0
    /\ initialized = FALSE
    /\ timer_running = FALSE
    /\ timer_thread_running = FALSE
    /\ mutex = "free"
    /\ now = 0
    /\ tpc = "t_none"
    /\ tid = 0
    /\ tcur = 0
    /\ pc = [c \in Threads |-> "idle"]
    /\ loc = [c \in Threads |-> NoLoc]
    /\ exited = FALSE
    /\ fires = [id \in Ids |-> 0]
    /\ fed = [id \in Ids |-> 0]
    /\ reg = [id \in Ids |-> NoReg]
    /\ due = {}
    /\ called = NoCall
    /\ touched = {}

(* ------------------------------- clock -------------------------------- *)
Tick ==
    /\ ~exited
    /\ now < MaxTime
    /\ now' = now + 1
    /\ UNCHANGED <<ctx, timer_thread_running, mutex, timer, pc, loc, exited, hist>>

\* Faulty variant of z_wdt_init: the initialized flag is not tested.
z_wdt_init_always(c, os_ok) ==
    /\ ~exited /\ pc[c] = "idle"
    /\ channels' = [id \in Ids |-> ZeroChannel]
    /\ next_timeout_channel' = -1
    /\ next_timeout_ticks' = INT64_MAX
    /\ initialized' = TRUE
    /\ timer_running' = TRUE
    /\ timer_thread_running' = TRUE
    /\ tpc' = IF os_ok THEN "t_idle" ELSE tpc
    /\ Ret(c, "init", -1, IF os_ok THEN 0 ELSE -1)
    /\ UNCHANGED <<mutex, now, tid, tcur, exited, hist>>

\* Faulty variant of z_wdt_init: the context is not zeroed.
z_wdt_init_keeps_slots(c, os_ok) ==
    /\ ~exited /\ pc[c] = "idle" /\ ~initialized
    /\ initialized' = TRUE
    /\ timer_running' = TRUE
    /\ timer_thread_running' = TRUE
    /\ tpc' = IF os_ok THEN "t_idle" ELSE tpc
    /\ Ret(c, "init", -1, IF os_ok THEN 0 ELSE -1)
    /\ next_timeout_channel' = -1
    /\ next_timeout_ticks' = INT64_MAX
    /\ UNCHANGED <<channels, mutex, now, tid, tcur, exited, hist>>

(* ---------------------------- z_wdt_init ------------------------------ *)
\* os_ok: whether pthread_create succeeds in watchdog_os_init.
z_wdt_init(c, os_ok) ==
    /\ ~exited /\ pc[c] = "idle"
    /\ IF initialized
       THEN /\ Ret(c, "init", -1, 0)
            /\ UNCHANGED <<ctx, timer_thread_running, mutex, now, timer, exited, hist>>
       ELSE /\ channels' = [id \in Ids |-> ZeroChannel]
            /\ next_timeout_channel' = -1
            /\ next_timeout_ticks' = INT64_MAX
            /\ initialized' = TRUE
            /\ timer_running' = TRUE
            /\ timer_thread_running' = TRUE
            /\ tpc' = IF os_ok THEN "t_idle" ELSE tpc
            /\ pc' = [pc EXCEPT ![c] = "ret"]
            /\ loc' = [loc EXCEPT ![c] =
                           [NoLoc EXCEPT !.op = "init",
                                         !.res = IF os_ok THEN 0 ELSE -1,
                                         !.had = {id \in Ids : channels[id].active},
                                         !.mon = timer_running]]
            /\ fires' = [id \in Ids |-> 0]
            /\ fed' = [id \in Ids |-> 0]
            /\ reg' = [id \in Ids |-> NoReg]
            /\ UNCHANGED <<mutex, now, tid, tcur, exited, due, called, touched>>

(* --------------------------- z_wdt_cleanup ---------------------------- *)
\* if (initialized) { watchdog_os_cleanup(); ... }: watchdog_os_cleanup
\* clears timer_thread_running and joins the timer thread.
z_wdt_cleanup_call(c) ==
    /\ ~exited /\ pc[c] = "idle"
    /\ IF ~initialized
       THEN /\ Ret(c, "cleanup", -1, 0)
            /\ UNCHANGED <<initialized, timer_thread_running>>
       ELSE IF timer_thread_running
       THEN /\ timer_thread_running' = FALSE
            /\ pc' = [pc EXCEPT ![c] = "c_join"]
            /\ loc' = [loc EXCEPT ![c] = [NoLoc EXCEPT !.op = "cleanup"]]
            /\ UNCHANGED initialized
       ELSE /\ initialized' = FALSE
            /\ Ret(c, "cleanup", -1, 0)
            /\ UNCHANGED timer_thread_running
    /\ UNCHANGED <<channels, next_timeout_channel, next_timeout_ticks, timer_running,
                   mutex, now, timer, exited, hist>>

\* Faulty variant of z_wdt_cleanup_join: the initialized flag is not reset.
z_wdt_cleanup_join_keeps_flag(c, crash) ==
    /\ ~exited /\ pc[c] = "c_join" /\ ~crash
    /\ tpc \in {"t_done", "t_none"}
    /\ tpc' = "t_none"
    /\ Ret(c, "cleanup", -1, 0)
    /\ UNCHANGED <<ctx, timer_thread_running, mutex, now, tid, tcur, exited, hist>>

\* pthread_join returns once the timer thread has left its loop; then
\* g_watchdog_ctx.initialized = false.  When pthread_create had failed,
\* timer_thread is no thread: joining it is undefined, and returns at once
\* (crash = FALSE) or ends the process (crash = TRUE).
z_wdt_cleanup_join(c, crash) ==
    /\ ~exited /\ pc[c] = "c_join"
    /\ \/ /\ tpc = "t_done" /\ ~crash
          /\ tpc' = "t_none"
          /\ initialized' = FALSE
          /\ Ret(c, "cleanup", -1, 0)
          /\ UNCHANGED exited
       \/ /\ tpc = "t_none" /\ ~crash
          /\ initialized' = FALSE
          /\ Ret(c, "cleanup", -1, 0)
          /\ UNCHANGED <<tpc, exited>>
       \/ /\ tpc = "t_none" /\ crash
          /\ exited' = TRUE
          /\ UNCHANGED <<tpc, initialized, pc, loc>>
    /\ UNCHANGED <<channels, next_timeout_channel, next_timeout_ticks, timer_running,
                   timer_thread_running, mutex, now, tid, tcur, hist>>

(* ----------------------------- z_wdt_feed ----------------------------- *)
\* Faulty variant of FeedOk: the active flag is not tested.
FeedOkAnySlot(chs, id) == initialized /\ id \in Ids

\* The three checks of z_wdt_feed.
FeedOk(chs, id) == initialized /\ id \in Ids /\ chs[id].active

\* The table after z_wdt_feed(id) run in one piece (called by z_wdt_add
\* with the mutex held, or by a callback in the timer thread).
FedTable(chs, id) ==
    IF FeedOk(chs, id)
    THEN [chs EXCEPT ![id].timeout_abs_ticks = FeedDeadline(now, chs[id].reload_period)]
    ELSE chs

\* z_wdt_feed called by a thread: the three checks and the clock read.
z_wdt_feed_call(c, id) ==
    /\ ~exited /\ pc[c] = "idle"
    /\ IF FeedOk(channels, id)
       THEN /\ pc' = [pc EXCEPT ![c] = "f_write"]
            /\ loc' = [loc EXCEPT ![c] = [NoLoc EXCEPT !.op = "feed", !.id = id, !.ft = now]]
       ELSE Ret(c, "feed", id, -1)
    /\ UNCHANGED <<ctx, timer_thread_running, mutex, now, timer, exited, hist>>

\* channels[id].timeout_abs_ticks = current_ticks + ms_to_ticks(reload_period),
\* then watchdog_get_next_timeout_channel().
z_wdt_feed_write(c) ==
    /\ ~exited /\ pc[c] = "f_write"
    /\ channels' = [channels EXCEPT ![loc[c].id].timeout_abs_ticks =
                        FeedDeadline(loc[c].ft, channels[loc[c].id].reload_period)]
    /\ pc' = [pc EXCEPT ![c] = "f_sched"]
    /\ loc' = [loc EXCEPT ![c].nx = watchdog_get_next_timeout_channel(channels'),
                           ![c].old = channels[loc[c].id].timeout_abs_ticks]
    /\ touched' = IF SweepRunning THEN touched \cup {loc[c].id} ELSE touched
    /\ UNCHANGED <<next_timeout_channel, next_timeout_ticks, initialized, timer_running,
                   timer_thread_running, mutex, now, timer, exited, fires, fed, reg, due, called>>

\* The writes of watchdog_schedule_next_timeout, and return 0.
z_wdt_feed_sched(c) ==
    /\ ~exited /\ pc[c] = "f_sched"
    /\ next_timeout_channel' = ScheduledChannel(loc[c].nx)
    /\ next_timeout_ticks' = ScheduledTicks(channels, loc[c].nx)
    /\ pc' = [pc EXCEPT ![c] = "ret"]
    /\ loc' = [loc EXCEPT ![c] = [NoLoc EXCEPT !.op = "feed", !.id = loc[c].id,
                                     !.ft = loc[c].ft, !.old = loc[c].old,
                                     !.res = 0]]
    /\ UNCHANGED reg
    /\ fed' = IF channels[loc[c].id].active
              THEN [fed EXCEPT ![loc[c].id] =
                        Max(@, loc[c].ft + channels[loc[c].id].reload_period)]
              ELSE fed
    /\ UNCHANGED <<channels, initialized, timer_running, timer_thread_running, mutex,
                   now, timer, exited, fires, due, called, touched>>

(* ------------------------------ z_wdt_add ----------------------------- *)
\* Faulty variant of AddedChannel: user_data is not stored.
AddedChannelNoPayload(reload_period, callback, user_data) ==
    [reload_period |-> reload_period, timeout_abs_ticks |-> INT64_MAX,
     user_data |-> NULL, callback |-> callback, active |-> TRUE]

\* The slot z_wdt_add fills in, before it feeds it.
AddedChannel(reload_period, callback, user_data) ==
    [reload_period |-> reload_period, timeout_abs_ticks |-> INT64_MAX,
     user_data |-> user_data, callback |-> callback, active |-> TRUE]

\* z_wdt_add from watchdog_mutex_lock() to its return.
AddLocked(c, reload_period, callback, user_data) ==
    LET id == FindUnused(channels, 0)
        chs == [channels EXCEPT ![id] = AddedChannel(reload_period, callback, user_data)]
    IN /\ pc' = [pc EXCEPT ![c] = "ret"]
       /\ loc' = [loc EXCEPT ![c] = [NoLoc EXCEPT !.op = "add", !.id = id, !.res = id,
                                        !.p = reload_period, !.cb = callback,
                                        !.ud = user_data,
                                        !.old = IF id >= 0
                                                THEN channels[id].timeout_abs_ticks
                                                ELSE 0]]
       /\ IF id >= 0
          THEN /\ channels' = FedTable(chs, id)
               /\ IF FeedOk(chs, id)
                  THEN watchdog_schedule_next_timeout(channels')
                  ELSE UNCHANGED <<next_timeout_channel, next_timeout_ticks>>
               /\ fires' = [fires EXCEPT ![id] = 0]
               /\ fed' = [fed EXCEPT ![id] = 0]
               /\ reg' = [reg EXCEPT ![id] = [cb |-> callback, ud |-> user_data]]
          ELSE UNCHANGED <<channels, next_timeout_channel, next_timeout_ticks, fires, fed, reg>>
       /\ UNCHANGED <<initialized, timer_running>>

z_wdt_add(c, reload_period, callback, user_data) ==
    /\ ~exited /\ pc[c] = "idle"
    /\ IF ~initialized \/ reload_period = 0
       THEN /\ pc' = [pc EXCEPT ![c] = "ret"]
            /\ loc' = [loc EXCEPT ![c] = [NoLoc EXCEPT !.op = "add", !.res = -1,
                                             !.p = reload_period, !.cb = callback,
                                             !.ud = user_data]]
            /\ UNCHANGED <<ctx, fires, fed, reg>>
       ELSE IF mutex = "free"
       THEN AddLocked(c, reload_period, callback, user_data)
       ELSE /\ Block(c, "add", -1, reload_period, callback, user_data)
            /\ UNCHANGED <<ctx, fires, fed, reg>>
    /\ UNCHANGED <<timer_thread_running, mutex, now, timer, exited, due, called, touched>>

(* ----------------------------- z_wdt_delete --------------------------- *)
\* Faulty variant of DeletedChannel: the fields are cleared, active is not.
DeletedStillActive(ch) ==
    [ch EXCEPT !.reload_period = 0, !.callback = NULL, !.user_data = NULL]

\* The slot after z_wdt_delete has cleared it.
DeletedChannel(ch) ==
    [ch EXCEPT !.active = FALSE, !.reload_period = 0, !.callback = NULL,
               !.user_data = NULL]

\* z_wdt_delete from watchdog_mutex_lock() to its return.
DeleteLocked(c, id) ==
    /\ IF channels[id].active
       THEN /\ channels' = [channels EXCEPT ![id] = DeletedChannel(@)]
            /\ watchdog_schedule_next_timeout(channels')
            /\ fed' = [fed EXCEPT ![id] = 0]
            /\ reg' = [reg EXCEPT ![id] = NoReg]
            /\ pc' = [pc EXCEPT ![c] = "ret"]
            /\ loc' = [loc EXCEPT ![c] = [NoLoc EXCEPT !.op = "delete", !.id = id,
                                             !.ft = now]]
       ELSE /\ Ret(c, "delete", id, -1)
            /\ UNCHANGED <<channels, next_timeout_channel, next_timeout_ticks, fed, reg>>
    /\ UNCHANGED <<initialized, timer_running, fires>>

z_wdt_delete(c, id) ==
    /\ ~exited /\ pc[c] = "idle"
    /\ IF ~initialized \/ id < 0 \/ id >= WATCHDOG_MAX_CHANNELS
       THEN /\ Ret(c, "delete", id, -1)
            /\ UNCHANGED <<ctx, fires, fed, reg>>
       ELSE IF mutex = "free"
       THEN DeleteLocked(c, id)
       ELSE /\ Block(c, "delete", id, 0, NULL, NULL)
            /\ UNCHANGED <<ctx, fires, fed, reg>>
    /\ UNCHANGED <<timer_thread_running, mutex, now, timer, exited, due, called, touched>>

(* ------------------------ z_wdt_suspend / resume ---------------------- *)
\* z_wdt_suspend from watchdog_mutex_lock() to its return.
SuspendLocked(c) ==
    /\ timer_running' = FALSE
    /\ Ret(c, "suspend", -1, 0)
    /\ UNCHANGED <<channels, next_timeout_channel, next_timeout_ticks, initialized,
                   fires, fed, reg>>

z_wdt_suspend(c) ==
    /\ ~exited /\ pc[c] = "idle"
    /\ IF ~initialized
       THEN /\ Ret(c, "suspend", -1, -1)
            /\ UNCHANGED <<ctx, fires, fed, reg>>
       ELSE IF mutex = "free"
       THEN SuspendLocked(c)
       ELSE /\ Block(c, "suspend", -1, 0, NULL, NULL)
            /\ UNCHANGED <<ctx, fires, fed, reg>>
    /\ UNCHANGED <<timer_thread_running, mutex, now, timer, exited, due, called, touched>>

\* The table after the loop of z_wdt_resume, run at current_ticks.
ResumedTable(chs, current_ticks) ==
    [id \in Ids |->
        IF chs[id].active
        THEN [chs[id] EXCEPT !.timeout_abs_ticks =
                  FeedDeadline(current_ticks, chs[id].reload_period)]
        ELSE chs[id]]

\* z_wdt_resume from watchdog_mutex_lock() to its return.
ResumeLocked(c) ==
    /\ channels' = ResumedTable(channels, now)
    /\ timer_running' = TRUE
    /\ watchdog_schedule_next_timeout(channels')
    /\ pc' = [pc EXCEPT ![c] = "ret"]
    /\ loc' = [loc EXCEPT ![c] = [NoLoc EXCEPT !.op = "resume", !.ft = now]]
    /\ UNCHANGED <<initialized, fires, fed, reg>>

z_wdt_resume(c) ==
    /\ ~exited /\ pc[c] = "idle"
    /\ IF ~initialized
       THEN /\ Ret(c, "resume", -1, -1)
            /\ UNCHANGED <<ctx, fires, fed, reg>>
       ELSE IF mutex = "free"
       THEN ResumeLocked(c)
       ELSE /\ Block(c, "resume", -1, 0, NULL, NULL)
            /\ UNCHANGED <<ctx, fires, fed, reg>>
    /\ UNCHANGED <<timer_thread_running, mutex, now, timer, exited, due, called, touched>>

\* watchdog_mutex_lock() returns to a waiting caller, which runs on.
mutex_acquired(c) ==
    /\ ~exited /\ pc[c] = "lock" /\ mutex = "free"
    /\ IF loc[c].op = "add" THEN AddLocked(c, loc[c].p, loc[c].cb, loc[c].ud)
       ELSE IF loc[c].op = "delete" THEN DeleteLocked(c, loc[c].id)
       ELSE IF loc[c].op = "suspend" THEN SuspendLocked(c)
       ELSE ResumeLocked(c)
    /\ UNCHANGED <<timer_thread_running, mutex, now, timer, exited, due, called, touched>>

\* The caller goes on after the call has returned.
Return(c) ==
    /\ ~exited /\ pc[c] = "ret"
    /\ pc' = [pc EXCEPT ![c] = "idle"]
    /\ loc' = [loc EXCEPT ![c] = NoLoc]
    /\ UNCHANGED <<ctx, timer_thread_running, mutex, now, timer, exited, hist>>

(* ------------------- timer thread: timer_thread_func ------------------ *)
\* while (timer_thread_running): the loop is left once the flag is cleared.
timer_thread_exit ==
    /\ ~exited /\ tpc = "t_idle" /\ ~timer_thread_running
    /\ tpc' = "t_done"
    /\ UNCHANGED <<ctx, timer_thread_running, mutex, now, tid, tcur, pc, loc, exited, hist>>

\* lock; z_wdt_process() returns at its guard; unlock; sleep.
z_wdt_process_noop ==
    /\ ~exited /\ tpc = "t_idle" /\ timer_thread_running /\ mutex = "free"
    /\ ~ProcessGuard
    /\ UNCHANGED vars

\* lock; z_wdt_process() passes its guard and reads the clock.
z_wdt_process_start ==
    /\ ~exited /\ tpc = "t_idle" /\ timer_thread_running /\ mutex = "free"
    /\ ProcessGuard
    /\ mutex' = "timer"
    /\ tpc' = "t_scan"
    /\ tid' = 0
    /\ tcur' = now
    /\ due' = {id \in Ids : /\ channels[id].active
                            /\ channels[id].timeout_abs_ticks <= now
                            /\ channels[id].callback # NULL}
    /\ touched' = {}
    /\ UNCHANGED called
    /\ UNCHANGED <<ctx, timer_thread_running, now, pc, loc, exited, fires, fed, reg>>

\* Faulty variant of z_wdt_process_scan: the clock is read at every test.
z_wdt_process_scan_rereads_clock ==
    /\ ~exited /\ tpc = "t_scan" /\ tid < WATCHDOG_MAX_CHANNELS
    /\ IF Expired(channels[tid], now)
       THEN /\ tpc' = "t_timeout"
            /\ UNCHANGED tid
       ELSE /\ tid' = tid + 1
            /\ UNCHANGED tpc
    /\ UNCHANGED <<ctx, timer_thread_running, mutex, now, tcur, pc, loc, exited, hist>>

\* One test of the loop of z_wdt_process: has slot id timed out?
z_wdt_process_scan ==
    /\ ~exited /\ tpc = "t_scan" /\ tid < WATCHDOG_MAX_CHANNELS
    /\ IF Expired(channels[tid], tcur)
       THEN /\ tpc' = "t_timeout"
            /\ UNCHANGED tid
       ELSE /\ tid' = tid + 1
            /\ UNCHANGED tpc
    /\ UNCHANGED <<ctx, timer_thread_running, mutex, now, tcur, pc, loc, exited, hist>>

\* What the callback of slot id does to the table when it is invoked:
\* "cbFeed" calls z_wdt_feed(id), "cb" touches nothing.
CallbackTable(chs, id) ==
    IF chs[id].callback = "cbFeed" THEN FedTable(chs, id) ELSE chs

\* The call channels[id].callback(id, channels[id].user_data).
CallbackCall(chs, id) == [id |-> id, cb |-> chs[id].callback, ud |-> chs[id].user_data]

\* Faulty variant of z_wdt_process_timeout: without a callback the timeout
\* is only logged and the slot deactivated, the process goes on.
z_wdt_process_timeout_no_exit ==
    /\ ~exited /\ tpc = "t_timeout"
    /\ tpc' = "t_cb"
    /\ fires' = IF channels[tid].callback # NULL
                THEN [fires EXCEPT ![tid] = IF @ < 2 THEN @ + 1 ELSE @]
                ELSE fires
    /\ called' = CallbackCall(channels, tid)
    /\ channels' = CallbackTable(channels, tid)
    /\ IF channels' # channels
       THEN watchdog_schedule_next_timeout(channels')
       ELSE UNCHANGED <<next_timeout_channel, next_timeout_ticks>>
    /\ UNCHANGED <<initialized, timer_running, timer_thread_running, mutex, now, tid,
                   tcur, pc, loc, exited, fed, reg, due, touched>>

\* After the timeout is logged: the callback is called, or exit(1).
z_wdt_process_timeout ==
    /\ ~exited /\ tpc = "t_timeout"
    /\ IF channels[tid].callback # NULL
       THEN /\ tpc' = "t_cb"
            /\ fires' = [fires EXCEPT ![tid] = IF @ < 2 THEN @ + 1 ELSE @]
            /\ called' = CallbackCall(channels, tid)
            /\ channels' = CallbackTable(channels, tid)
            /\ IF channels' # channels
               THEN watchdog_schedule_next_timeout(channels')
               ELSE UNCHANGED <<next_timeout_channel, next_timeout_ticks>>
            /\ UNCHANGED exited
       ELSE /\ exited' = TRUE
            /\ UNCHANGED <<channels, next_timeout_channel, next_timeout_ticks, tpc, fires,
                           called>>
    /\ UNCHANGED <<initialized, timer_running, timer_thread_running, mutex, now, tid,
                   tcur, pc, loc, fed, reg, due, touched>>

\* Faulty variant of TimedOutChannel: the slot stays as it is.
KeptChannel(ch) == ch

\* The slot after the timeout has been handled.
TimedOutChannel(ch) == [ch EXCEPT !.active = FALSE]

\* The callback returns; channels[id].active = false; next turn.
z_wdt_process_deactivate ==
    /\ ~exited /\ tpc = "t_cb"
    /\ channels' = [channels EXCEPT ![tid] = TimedOutChannel(@)]
    /\ tpc' = "t_scan"
    /\ tid' = tid + 1
    /\ fed' = [fed EXCEPT ![tid] = 0]
    /\ called' = NoCall
    /\ UNCHANGED reg
    /\ UNCHANGED <<next_timeout_channel, next_timeout_ticks, initialized, timer_running,
                   timer_thread_running, mutex, now, tcur, pc, loc, exited, fires, due,
                   touched>>

\* After the loop: watchdog_schedule_next_timeout(); return; unlock; sleep.
z_wdt_process_end ==
    /\ ~exited /\ tpc = "t_scan" /\ tid >= WATCHDOG_MAX_CHANNELS
    /\ watchdog_schedule_next_timeout(channels)
    /\ mutex' = "free"
    /\ tpc' = "t_idle"
    /\ tid' = 0
    /\ tcur' = 0
    /\ due' = {}
    /\ UNCHANGED called
    /\ touched' = {}
    /\ UNCHANGED <<channels, initialized, timer_running, timer_thread_running, now, pc,
                   loc, exited, fires, fed, reg>>

(* ------------------------------ the system ---------------------------- *)
Next ==
    \/ Tick
    \/ \E c \in Callers, os_ok \in BOOLEAN : z_wdt_init(c, os_ok)
    \/ \E c \in Callers : z_wdt_cleanup_call(c)
    \/ \E c \in Callers, crash \in BOOLEAN : z_wdt_cleanup_join(c, crash)
    \/ \E c \in Callers, id \in ArgIds : z_wdt_feed_call(c, id)
    \/ \E c \in Callers : z_wdt_feed_write(c)
    \/ \E c \in Callers : z_wdt_feed_sched(c)
    \/ \E c \in Callers, p \in Periods, cb \in Callbacks :
           z_wdt_add(c, p, cb, UserDataOf(cb))
    \/ \E c \in Callers, id \in ArgIds : z_wdt_delete(c, id)
    \/ \E c \in Callers : z_wdt_suspend(c)
    \/ \E c \in Callers : z_wdt_resume(c)
    \/ \E c \in Callers : mutex_acquired(c)
    \/ \E c \in Callers : Return(c)
    \/ timer_thread_exit
    \/ z_wdt_process_noop
    \/ z_wdt_process_start
    \/ z_wdt_process_scan
    \/ z_wdt_process_timeout
    \/ z_wdt_process_deactivate
    \/ z_wdt_process_end

Spec == Init /\ [][Next]_vars

(* ----------------- the monitored system with its tasks ---------------- *)
\* The state after z_wdt_init() and one z_wdt_add(period, callback, ..) per
\* slot at clock 0, before the first sweep: the set-up of the tests.
InitTasks ==
    /\ \E p \in [Ids -> 1 .. MaxPeriod], cb \in [Ids -> Callbacks \ {NULL}] :
           channels = [id \in Ids |->
                          [AddedChannel(p[id], cb[id], UserDataOf(cb[id]))
                               EXCEPT !.timeout_abs_ticks = FeedDeadline(0, p[id])]]
    /\ next_timeout_channel = ScheduledChannel(watchdog_get_next_timeout_channel(channels))
    /\ next_timeout_ticks = ScheduledTicks(channels, watchdog_get_next_timeout_channel(channels))
    /\ initialized = TRUE
    /\ timer_running = TRUE
    /\ timer_thread_running = TRUE
    /\ mutex = "free"
    /\ now = 0
    /\ tpc = "t_idle"
    /\ tid = 0
    /\ tcur = 0
    /\ pc = [c \in Threads |-> "idle"]
    /\ loc = [c \in Threads |-> NoLoc]
    /\ exited = FALSE
    /\ fires = [id \in Ids |-> 0]
    /\ fed = [id \in Ids |-> 0]
    /\ reg = [id \in Ids |-> [cb |-> channels[id].callback,
                             ud |-> channels[id].user_data]]
    /\ due = {}
    /\ called = NoCall
    /\ touched = {}

\* "main" suspends and resumes, "task" feeds, the timer thread sweeps.
NextTasks ==
    \/ Tick
    \/ \E id \in Ids : z_wdt_feed_call("task", id)
    \/ z_wdt_feed_write("task")
    \/ z_wdt_feed_sched("task")
    \/ z_wdt_suspend("main")
    \/ z_wdt_resume("main")
    \/ mutex_acquired("main")
    \/ \E c \in Threads : Return(c)
    \/ z_wdt_process_noop
    \/ z_wdt_process_start
    \/ z_wdt_process_scan
    \/ z_wdt_process_timeout
    \/ z_wdt_process_deactivate
    \/ z_wdt_process_end

SpecTasks == InitTasks /\ [][NextTasks]_vars

(* ------------- callbacks that call the API from the sweep ------------- *)
\* Callbacks that call a function taking the mutex: "cbAdd" adds its channel
\* again with z_wdt_add, "cbDelete" deletes a channel with z_wdt_delete.
LockingCallbacks == {"cbAdd", "cbDelete"}

\* The callback, called by z_wdt_process in the timer thread between
\* pthread_mutex_lock and pthread_mutex_unlock, calls z_wdt_add or
\* z_wdt_delete, which passes its checks and calls watchdog_mutex_lock():
\* the thread waits for the mutex it holds (the mutex is not recursive).
callback_lock ==
    /\ ~exited /\ tpc = "t_cb"
    /\ channels[tid].callback \in LockingCallbacks
    /\ tpc' = "t_lock"
    /\ UNCHANGED <<ctx, timer_thread_running, mutex, now, tid, tcur, pc, loc, exited, hist>>

\* A callback that takes no mutex returns to z_wdt_process.
callback_returns ==
    /\ tpc = "t_cb"
    /\ channels[tid].callback \notin LockingCallbacks
    /\ z_wdt_process_deactivate

\* The state after z_wdt_init() and one z_wdt_add(1, callback, ..) per slot
\* at clock 0.
InitCallbacks ==
    /\ \E cb \in [Ids -> {"cb"} \cup LockingCallbacks] :
           channels = [id \in Ids |->
                          [AddedChannel(1, cb[id], UserDataOf(cb[id]))
                               EXCEPT !.timeout_abs_ticks = FeedDeadline(0, 1)]]
    /\ next_timeout_channel = ScheduledChannel(watchdog_get_next_timeout_channel(channels))
    /\ next_timeout_ticks = ScheduledTicks(channels, watchdog_get_next_timeout_channel(channels))
    /\ initialized = TRUE
    /\ timer_running = TRUE
    /\ timer_thread_running = TRUE
    /\ mutex = "free"
    /\ now = 0
    /\ tpc = "t_idle"
    /\ tid = 0
    /\ tcur = 0
    /\ pc = [c \in Threads |-> "idle"]
    /\ loc = [c \in Threads |-> NoLoc]
    /\ exited = FALSE
    /\ fires = [id \in Ids |-> 0]
    /\ fed = [id \in Ids |-> 0]
    /\ reg = [id \in Ids |-> [cb |-> channels[id].callback,
                             ud |-> channels[id].user_data]]
    /\ due = {}
    /\ called = NoCall
    /\ touched = {}

\* The steps of the timer thread.
TimerStep ==
    \/ z_wdt_process_noop
    \/ z_wdt_process_start
    \/ z_wdt_process_scan
    \/ z_wdt_process_timeout
    \/ callback_returns
    \/ callback_lock
    \/ z_wdt_process_end

\* "main" adds, deletes, feeds, suspends and resumes; the timer thread sweeps.
NextCallbacks ==
    \/ Tick
    \/ \E id \in Ids : z_wdt_feed_call("main", id)
    \/ z_wdt_feed_write("main")
    \/ z_wdt_feed_sched("main")
    \/ \E cb \in {"cb"} \cup LockingCallbacks : z_wdt_add("main", 1, cb, UserDataOf(cb))
    \/ \E id \in Ids : z_wdt_delete("main", id)
    \/ z_wdt_suspend("main")
    \/ z_wdt_resume("main")
    \/ mutex_acquired("main")
    \/ Return("main")
    \/ TimerStep

\* Every thread that can run does run: the timer thread goes on with its
\* loop, a call goes on with its next statement, and a caller waiting in
\* watchdog_mutex_lock() gets the mutex if it is free again and again (the
\* timer thread sleeps 100 ms after each unlock).
FairCallbacks ==
    /\ WF_vars(TimerStep)
    /\ WF_vars(z_wdt_feed_write("main"))
    /\ WF_vars(z_wdt_feed_sched("main"))
    /\ SF_vars(mutex_acquired("main"))

SpecCallbacks == InitCallbacks /\ [][NextCallbacks]_vars /\ FairCallbacks

(* ------------------------- concurrent adders -------------------------- *)
\* Faulty variant of z_wdt_add_lock: the mutex is not taken.
z_wdt_add_lock_missing(c, reload_period, callback, user_data) ==
    /\ ~exited /\ pc[c] = "idle"
    /\ IF ~initialized \/ reload_period = 0
       THEN pc' = [pc EXCEPT ![c] = "ret"]
       ELSE pc' = [pc EXCEPT ![c] = "a_find"]
    /\ loc' = [loc EXCEPT ![c] = [NoLoc EXCEPT !.op = "add", !.res = -1,
                                     !.p = reload_period, !.cb = callback,
                                     !.ud = user_data]]
    /\ UNCHANGED <<ctx, timer_thread_running, mutex, now, timer, exited, hist>>

\* z_wdt_add step by step, for callers that run side by side: the checks
\* and watchdog_mutex_lock(), which returns when the mutex is free.
z_wdt_add_lock(c, reload_period, callback, user_data) ==
    /\ ~exited /\ pc[c] = "idle"
    /\ IF ~initialized \/ reload_period = 0
       THEN /\ pc' = [pc EXCEPT ![c] = "ret"]
            /\ UNCHANGED mutex
       ELSE /\ mutex = "free"
            /\ mutex' = c
            /\ pc' = [pc EXCEPT ![c] = "a_find"]
    /\ loc' = [loc EXCEPT ![c] = [NoLoc EXCEPT !.op = "add", !.res = -1,
                                     !.p = reload_period, !.cb = callback,
                                     !.ud = user_data]]
    /\ UNCHANGED <<ctx, timer_thread_running, now, timer, exited, hist>>

\* The loop of z_wdt_add up to the first slot that is not active.
z_wdt_add_find(c) ==
    /\ ~exited /\ pc[c] = "a_find"
    /\ pc' = [pc EXCEPT ![c] = "a_fill"]
    /\ loc' = [loc EXCEPT ![c].nx = FindUnused(channels, 0)]
    /\ UNCHANGED <<ctx, timer_thread_running, mutex, now, timer, exited, hist>>

\* The slot found is filled and fed, or there is none; unlock; return.
z_wdt_add_fill(c) ==
    LET id == loc[c].nx
        chs == [channels EXCEPT ![id] = AddedChannel(loc[c].p, loc[c].cb, loc[c].ud)]
    IN /\ ~exited /\ pc[c] = "a_fill"
       /\ pc' = [pc EXCEPT ![c] = "ret"]
       /\ loc' = [loc EXCEPT ![c].id = id, ![c].res = id, ![c].nx = -1,
                              ![c].old = IF id >= 0
                                         THEN channels[id].timeout_abs_ticks
                                         ELSE 0]
       /\ IF id >= 0
          THEN /\ channels' = FedTable(chs, id)
               /\ watchdog_schedule_next_timeout(channels')
               /\ fires' = [fires EXCEPT ![id] = 0]
               /\ fed' = [fed EXCEPT ![id] = 0]
               /\ reg' = [reg EXCEPT ![id] = [cb |-> loc[c].cb, ud |-> loc[c].ud]]
          ELSE UNCHANGED <<channels, next_timeout_channel, next_timeout_ticks, fires,
                           fed, reg>>
       /\ mutex' = "free"
       /\ UNCHANGED <<initialized, timer_running, timer_thread_running, now, timer,
                      exited, due, called, touched>>

\* The state after z_wdt_init(): no channel yet.
InitAdders ==
    /\ channels = [id \in Ids |-> ZeroChannel]
    /\ next_timeout_channel = -1
    /\ next_timeout_ticks = INT64_MAX
    /\ initialized = TRUE
    /\ timer_running = TRUE
    /\ timer_thread_running = TRUE
    /\ mutex = "free"
    /\ now = 0
    /\ tpc = "t_idle"
    /\ tid = 0
    /\ tcur = 0
    /\ pc = [c \in Threads |-> "idle"]
    /\ loc = [c \in Threads |-> NoLoc]
    /\ exited = FALSE
    /\ fires = [id \in Ids |-> 0]
    /\ fed = [id \in Ids |-> 0]
    /\ reg = [id \in Ids |-> NoReg]
    /\ due = {}
    /\ called = NoCall
    /\ touched = {}

\* Both threads add and delete, the timer thread sweeps (monitoring is
\* never disabled here, so z_wdt_process always passes its guard).
NextAdders ==
    \/ Tick
    \/ \E c \in Threads, p \in Periods : z_wdt_add_lock(c, p, "cb", UserDataOf("cb"))
    \/ \E c \in Threads : z_wdt_add_find(c)
    \/ \E c \in Threads : z_wdt_add_fill(c)
    \/ \E c \in Threads, id \in Ids : z_wdt_delete(c, id)
    \/ \E c \in Threads : mutex_acquired(c)
    \/ \E c \in Threads : Return(c)
    \/ z_wdt_process_start
    \/ z_wdt_process_scan
    \/ z_wdt_process_timeout
    \/ z_wdt_process_deactivate
    \/ z_wdt_process_end

SpecAdders == InitAdders /\ [][NextAdders]_vars

(* ============================== claims ================================ *)
\* The step in which the sweep calls the callback of slot tid.
Invoked == tpc = "t_timeout" /\ tpc' = "t_cb"

\* Caller c returns from op in this step (op has run to its end).
Returns(c, op) == pc[c] # "ret" /\ pc'[c] = "ret" /\ loc'[c].op = op

\* The expiry of slot id has been fired and handled by the sweep.
FiredOut(id) == fires[id] >= 1 /\ ~(tpc = "t_cb" /\ tid = id)

\* C1: a channel with a callback whose deadline t0+P is reached when a sweep
\* reads the clock, and which no feed writes during that sweep, has had its
\* callback invoked exactly once and is inactive once the sweep has passed
\* its slot; a callback is only invoked for a slot whose deadline was
\* reached at the sweep's clock reading, and never for an inactive slot
\* (so no later sweep invokes it again).
QuietChannelFiresOnce ==
    /\ (tpc = "t_cb" /\ tid \notin touched) => tid \in due
    /\ tpc = "t_scan" =>
           \A id \in due \ touched :
               id < tid => fires[id] = 1 /\ ~channels[id].active
    /\ tpc \in {"t_timeout", "t_cb"} => channels[tid].active

\* C1 witness: a sweep is at its end, and a quiet channel that was due has
\* been fired once and deactivated.
QuietChannelFired ==
    /\ tpc = "t_scan" /\ tid >= WATCHDOG_MAX_CHANNELS
    /\ \E id \in due \ touched : fires[id] = 1 /\ ~channels[id].active

\* C2: after feed(id) has returned success with clock reading t, no sweep
\* whose clock reading is below t + period invokes the callback of the
\* channel (fed[id] is the latest t + period of the returned feeds of the
\* activation).
NoFireBeforeFedDeadline ==
    [][Invoked => fed[tid] <= tcur]_vars

\* C3: feed is mutually exclusive with the sweep: no caller is inside
\* z_wdt_feed, past its checks, while a sweep is between its start and its
\* end.
FeedExcludesSweep ==
    \A c \in Threads : pc[c] \in {"f_write", "f_sched"} => ~SweepRunning

\* C4: the callback of an activation is invoked at most once; once the
\* sweep has handled the expiry the slot is inactive, also when the
\* callback fed it; a feed or delete of that slot then fails (-1).
OneCallbackPerActivation ==
    [][/\ \A id \in Ids : fires'[id] <= 1
       /\ \A id \in Ids :
              (fires'[id] >= 1 /\ ~(tpc' = "t_cb" /\ tid' = id))
                  => ~channels'[id].active
       /\ \A c \in Threads :
              (/\ pc[c] \in {"idle", "lock"} /\ pc'[c] \notin {"idle", "lock"}
               /\ loc'[c].op \in {"feed", "delete"}
               /\ loc'[c].id \in Ids
               /\ FiredOut(loc'[c].id))
                  => pc'[c] = "ret" /\ loc'[c].res = -1]_vars

\* C4 witness: the callback of a slot fed the slot (its deadline lies in the
\* future), the slot is inactive all the same, and a feed of it has failed.
FiredSlotRejectsFeed ==
    \E id \in Ids :
        /\ fires[id] = 1 /\ ~channels[id].active
        /\ channels[id].callback = "cbFeed" /\ channels[id].timeout_abs_ticks > now
        /\ pc["main"] = "ret" /\ loc["main"].op = "feed"
        /\ loc["main"].id = id /\ loc["main"].res = -1

\* C5: no sweep runs while monitoring is suspended: between suspend and
\* resume no callback is invoked and only delete deactivates a slot;
\* suspend itself clears timer_running and changes no slot, nor the cached
\* next timeout.
SuspendedSweepsNothing ==
    [][/\ SweepRunning' => timer_running'
       /\ \A c \in Threads :
              (Returns(c, "suspend") /\ loc'[c].res = 0)
                  => /\ ~timer_running'
                     /\ channels' = channels
                     /\ initialized' = initialized
                     /\ next_timeout_channel' = next_timeout_channel
                     /\ next_timeout_ticks' = next_timeout_ticks
       /\ (~timer_running /\ ~timer_running')
              => \A id \in Ids :
                     /\ fires'[id] <= fires[id]
                     /\ (channels[id].active /\ ~channels'[id].active)
                            => \E c \in Threads :
                                   Returns(c, "delete") /\ loc'[c].id = id]_vars

\* C5 witness: suspend has returned, the thread of the driver is alive, and
\* an active channel with a callback is overdue and has not been fired.
SuspendedOverdue ==
    /\ initialized /\ ~timer_running /\ tpc = "t_idle" /\ timer_thread_running
    /\ pc["main"] = "ret" /\ loc["main"].op = "suspend" /\ loc["main"].res = 0
    /\ \E id \in Ids :
           /\ channels[id].active /\ channels[id].callback # NULL
           /\ channels[id].timeout_abs_ticks < now /\ fires[id] = 0

\* C6: resume stores clock + period as the deadline of every active
\* channel, changes nothing else of any slot and enables monitoring; after
\* resume has returned at clock t, the callback of a channel is invoked
\* only by a sweep whose clock reading is at least t + period.
ResumeRearmsFullPeriod ==
    [][/\ \A c \in Threads :
              (Returns(c, "resume") /\ loc'[c].res = 0)
                  => /\ timer_running'
                     /\ loc'[c].ft = now
                     /\ \A id \in Ids :
                            channels'[id] =
                                IF channels[id].active
                                THEN [channels[id] EXCEPT !.timeout_abs_ticks =
                                          now + channels[id].reload_period]
                                ELSE channels[id]
       /\ (/\ Invoked
           /\ pc["main"] = "ret" /\ loc["main"].op = "resume" /\ loc["main"].res = 0)
              => tcur >= loc["main"].ft + channels[tid].reload_period]_vars

\* C7: a successful delete of an active channel, overdue or not, leaves the
\* slot inactive; no callback is invoked for an inactive slot, and only add
\* makes a slot active again (a new activation).
DeleteCancelsCallback ==
    [][/\ \A c \in Threads :
              (Returns(c, "delete") /\ loc'[c].res = 0)
                  => /\ channels[loc'[c].id].active
                     /\ ~channels'[loc'[c].id].active
       /\ \A id \in Ids :
              ~channels[id].active
                  => /\ fires'[id] <= fires[id]
                     /\ channels'[id].active
                            => \E c \in Threads :
                                   Returns(c, "add") /\ loc'[c].res = id
       /\ Invoked => channels[tid].active]_vars

\* C7 witness: delete of a channel with a callback has returned success at
\* a clock reading at which the channel was overdue and not yet fired, and
\* a later sweep has passed the slot without firing it.
OverdueChannelDeleted ==
    \E id \in Ids :
        /\ pc["main"] = "ret" /\ loc["main"].op = "delete"
        /\ loc["main"].id = id /\ loc["main"].res = 0
        /\ channels[id].timeout_abs_ticks <= loc["main"].ft
        /\ channels[id].timeout_abs_ticks > 0
        /\ fires[id] = 0 /\ ~channels[id].active
        /\ tpc = "t_scan" /\ tid > id

\* The inactive slots of the table.
Unused == {id \in Ids : ~channels[id].active}

\* C8: add with period > 0 on an initialized context with an inactive slot
\* returns the lowest inactive index; at its return that slot is active
\* with the given period, callback and user_data and deadline clock +
\* period, nothing else has changed, and the checks of feed(id) pass.
AddFillsLowestSlot ==
    [][\A c \in Threads :
           (Returns(c, "add") /\ initialized /\ loc'[c].p > 0 /\ Unused # {})
               => /\ loc'[c].res \in Unused
                  /\ \A id \in Unused : loc'[c].res <= id
                  /\ channels' =
                         [channels EXCEPT ![loc'[c].res] =
                              [reload_period |-> loc'[c].p,
                               timeout_abs_ticks |-> now + loc'[c].p,
                               user_data |-> loc'[c].ud,
                               callback |-> loc'[c].cb,
                               active |-> TRUE]]
                  /\ initialized' /\ timer_running' = timer_running
                  /\ channels'[loc'[c].res].active]_vars

\* C8 witness: add has returned slot 1 while slot 0 was active, and the
\* feed issued right after it has returned success.
AddedThenFed ==
    /\ channels[0].active /\ channels[1].active
    /\ channels[1].callback = "cb" /\ channels[1].user_data = "u1"
    /\ pc["main"] = "ret" /\ loc["main"].op = "feed"
    /\ loc["main"].id = 1 /\ loc["main"].res = 0
    /\ channels[1].timeout_abs_ticks = now + channels[1].reload_period

\* C9: add with period > 0 on an initialized context succeeds exactly when
\* fewer than WATCHDOG_MAX_CHANNELS slots are active; when it fails no slot
\* and no other field of the context has changed; after a successful
\* delete fewer than WATCHDOG_MAX_CHANNELS slots are active.
AddSucceedsIffFreeSlot ==
    [][\A c \in Threads :
           /\ (Returns(c, "add") /\ initialized /\ loc'[c].p > 0)
                  => /\ (loc'[c].res >= 0) <=>
                            (Cardinality(Ids \ Unused) < WATCHDOG_MAX_CHANNELS)
                     /\ (loc'[c].res < 0)
                            => /\ loc'[c].res = -1
                               /\ UNCHANGED ctx
           /\ (Returns(c, "delete") /\ loc'[c].res = 0)
                  => Cardinality({id \in Ids : channels'[id].active})
                         < WATCHDOG_MAX_CHANNELS]_vars

\* C9 witness: with every slot active, add with a period > 0 has failed.
AddRefusedWhenFull ==
    /\ initialized /\ \A id \in Ids : channels[id].active
    /\ pc["main"] = "ret" /\ loc["main"].op = "add"
    /\ loc["main"].p > 0 /\ loc["main"].res = -1

\* C10: feed(id) on an active channel of an initialized context reads the
\* clock, stores clock + period as the deadline of slot id whatever the
\* deadline was, changes nothing else of the table, and returns 0.
FeedSetsDeadline ==
    [][\A c \in Threads :
           /\ (/\ pc[c] = "idle" /\ pc'[c] # "idle" /\ loc'[c].op = "feed"
               /\ initialized /\ loc'[c].id \in Ids /\ channels[loc'[c].id].active)
                  => /\ pc'[c] = "f_write" /\ loc'[c].ft = now
                     /\ UNCHANGED ctx
           /\ (pc[c] = "f_write" /\ pc'[c] # "f_write")
                  => /\ channels' =
                            [channels EXCEPT ![loc[c].id].timeout_abs_ticks =
                                 loc[c].ft + channels[loc[c].id].reload_period]
                     /\ UNCHANGED <<initialized, timer_running>>
           /\ (pc[c] = "f_sched" /\ pc'[c] # "f_sched")
                  => /\ pc'[c] = "ret" /\ loc'[c].res = 0 /\ loc'[c].id = loc[c].id
                     /\ UNCHANGED <<channels, initialized, timer_running>>]_vars

\* C10 witness: a feed has returned success on a channel whose deadline
\* had passed before the feed read the clock; the channel is active and its
\* deadline is the clock of the feed + period.
OverdueChannelFed ==
    \E id \in Ids :
        /\ pc["main"] = "ret" /\ loc["main"].op = "feed"
        /\ loc["main"].id = id /\ loc["main"].res = 0
        /\ loc["main"].old < loc["main"].ft
        /\ channels[id].active /\ fires[id] = 0
        /\ channels[id].timeout_abs_ticks = loc["main"].ft + channels[id].reload_period

\* C11: a successful delete of an active channel leaves its slot inactive
\* with callback, user_data, period and deadline cleared (no deadline is 0,
\* as after init, or INT64_MAX); delete of an inactive slot returns -1; after
\* a successful delete a feed or a delete of the slot returns -1.
DeleteClearsSlot ==
    [][\A c \in Threads :
           /\ (Returns(c, "delete") /\ loc'[c].res = 0)
                  => /\ channels[loc'[c].id].active
                     /\ ~channels'[loc'[c].id].active
                     /\ channels'[loc'[c].id].callback = NULL
                     /\ channels'[loc'[c].id].user_data = NULL
                     /\ channels'[loc'[c].id].reload_period = 0
                     /\ channels'[loc'[c].id].timeout_abs_ticks \in {0, INT64_MAX}
           /\ (Returns(c, "delete") /\ loc'[c].id \in Ids /\ initialized
               /\ ~channels[loc'[c].id].active)
                  => loc'[c].res = -1
           /\ (/\ pc[c] = "idle" /\ pc'[c] # "idle" /\ loc'[c].op = "feed"
               /\ loc'[c].id \in Ids /\ ~channels[loc'[c].id].active)
                  => pc'[c] = "ret" /\ loc'[c].res = -1]_vars

\* Caller c makes its call take effect in this step: it was about to call
\* (or was waiting for the mutex) and now is past the call of op.
Calls(c, op) ==
    /\ pc[c] \in {"idle", "lock"} /\ pc'[c] \notin {"idle", "lock"}
    /\ loc'[c].op = op

\* C12: a call that fails changes nothing of the context (no slot, neither
\* flag, not the cached next timeout) and returns -1: feed or delete with an
\* id out of range or of an inactive slot, add with period 0 or with no
\* inactive slot, and every call on an uninitialized context (suspend and
\* resume return nothing, they change nothing).
FailingCallChangesNothing ==
    [][\A c \in Threads :
           /\ (/\ Calls(c, "feed") \/ Calls(c, "delete")
               /\ \/ ~initialized
                  \/ loc'[c].id \notin Ids
                  \/ ~channels[loc'[c].id].active)
                  => pc'[c] = "ret" /\ loc'[c].res = -1 /\ UNCHANGED ctx
           /\ (/\ Calls(c, "add")
               /\ ~initialized \/ loc'[c].p = 0 \/ Unused = {})
                  => pc'[c] = "ret" /\ loc'[c].res = -1 /\ UNCHANGED ctx
           /\ (/\ Calls(c, "suspend") \/ Calls(c, "resume")
               /\ ~initialized)
                  => pc'[c] = "ret" /\ UNCHANGED ctx]_vars

\* C12 witness: with a channel active, a feed with the id one past the last
\* slot has returned -1.
FeedOutOfRangeRejected ==
    /\ initialized /\ \E id \in Ids : channels[id].active
    /\ pc["main"] = "ret" /\ loc["main"].op = "feed"
    /\ loc["main"].id = WATCHDOG_MAX_CHANNELS /\ loc["main"].res = -1

\* C13: when the sweep has found an active slot expired and the slot has no
\* callback, the next step of the timer thread ends the process; after the
\* end nothing changes any more (no callback of a higher slot, no
\* operation); the process is ended by the sweep only in that case: the
\* slot is active, without callback, monitoring is enabled and the deadline
\* was reached at the sweep's clock reading (or a feed wrote it since).
NoCallbackTerminates ==
    [][/\ (tpc = "t_timeout" /\ channels[tid].callback = NULL)
              => \/ exited'
                 \/ tpc' = tpc /\ tid' = tid /\ fires' = fires
       /\ exited => UNCHANGED vars
       /\ (~exited /\ exited' /\ tpc # "t_none")
              => /\ tpc = "t_timeout"
                 /\ initialized /\ timer_running
                 /\ channels[tid].active /\ channels[tid].callback = NULL
                 /\ channels[tid].timeout_abs_ticks <= tcur \/ tid \in touched]_vars

\* C13 witness: the process has ended at slot 0, which was expired without
\* callback; a higher slot is active, expired and has a callback, which has
\* not been invoked.
FatalBeforeHigherCallback ==
    /\ exited /\ tpc = "t_timeout" /\ tid = 0
    /\ channels[0].callback = NULL
    /\ \E id \in Ids :
           /\ id > 0 /\ channels[id].active /\ channels[id].callback # NULL
           /\ channels[id].timeout_abs_ticks <= tcur /\ fires[id] = 0

\* C14: when cleanup returns the context is uninitialized and the timer
\* thread is gone; while the context is uninitialized no callback is invoked
\* and no sweep runs, whatever the slots hold; add, feed and delete return
\* -1, suspend and resume change nothing; cleanup on an uninitialized
\* context returns at once and changes nothing.
CleanupStopsEverything ==
    [][/\ \A c \in Threads :
              /\ Returns(c, "cleanup") => ~initialized' /\ tpc' = "t_none"
              /\ (/\ ~initialized
                  /\ Calls(c, "add") \/ Calls(c, "feed") \/ Calls(c, "delete"))
                     => pc'[c] = "ret" /\ loc'[c].res = -1 /\ UNCHANGED ctx
              /\ (/\ ~initialized
                  /\ Calls(c, "suspend") \/ Calls(c, "resume"))
                     => pc'[c] = "ret" /\ UNCHANGED ctx
              /\ (~initialized /\ Calls(c, "cleanup"))
                     => /\ pc'[c] = "ret"
                        /\ UNCHANGED <<ctx, timer_thread_running, timer, mutex>>
       /\ ~initialized' => ~SweepRunning' /\ tpc' = "t_none"
       /\ (~initialized /\ ~initialized') => fires' = fires]_vars

\* C14 witness: cleanup has returned; a slot is still marked active, has a
\* callback and is overdue, and its callback has not been invoked.
CleanedUpWithOverdueChannel ==
    /\ ~initialized /\ tpc = "t_none"
    /\ pc["main"] = "ret" /\ loc["main"].op = "cleanup"
    /\ \E id \in Ids :
           /\ channels[id].active /\ channels[id].callback # NULL
           /\ channels[id].timeout_abs_ticks < now /\ fires[id] = 0

\* C15: init on an uninitialized context (at start or after cleanup) returns
\* 0 exactly when the timer thread was started, and leaves the context
\* initialized, monitoring enabled, every slot zeroed and the cached deadline
\* empty, whatever the slots and the monitoring flag held before; a slot
\* becomes active only by an add that returns its id, and feed and delete of
\* an inactive slot return -1.
InitAfterCleanupIsFresh ==
    [][\A c \in Threads :
           /\ (Returns(c, "init") /\ ~initialized)
                  => /\ initialized' /\ timer_running'
                     /\ channels' = [id \in Ids |-> ZeroChannel]
                     /\ next_timeout_channel' = -1
                     /\ next_timeout_ticks' = INT64_MAX
                     /\ loc'[c].res = 0 <=> tpc' = "t_idle"
                     /\ loc'[c].res \in {0, -1}
           /\ \A id \in Ids :
                  /\ (~channels[id].active /\ channels'[id].active)
                         => \E d \in Threads : Returns(d, "add") /\ loc'[d].res = id
                  /\ (/\ Calls(c, "feed") \/ Returns(c, "delete")
                      /\ loc'[c].id = id /\ ~channels[id].active)
                         => pc'[c] = "ret" /\ loc'[c].res = -1]_vars

\* C15 witness: init has returned 0 on a context that was cleaned up while
\* suspended with a channel active: every slot is inactive and monitoring is
\* enabled.
RestartedFresh ==
    /\ pc["main"] = "ret" /\ loc["main"].op = "init" /\ loc["main"].res = 0
    /\ loc["main"].had # {} /\ ~loc["main"].mon
    /\ initialized /\ timer_running /\ tpc = "t_idle"
    /\ \A id \in Ids : ~channels[id].active

\* C16: init on an initialized context returns 0 and changes nothing: the
\* slots, the monitoring flag, the cached earliest deadline, the timer thread
\* and its run flag, and the mutex are as before.
InitTwiceChangesNothing ==
    [][\A c \in Threads :
           (Calls(c, "init") /\ initialized)
               => /\ pc'[c] = "ret" /\ loc'[c].res = 0
                  /\ UNCHANGED <<ctx, timer, timer_thread_running, mutex, hist>>]_vars

\* C16 witness: init has returned 0 on a context that is suspended and holds
\* an active channel (a first init leaves neither).
InitOnSuspendedContext ==
    /\ pc["main"] = "ret" /\ loc["main"].op = "init" /\ loc["main"].res = 0
    /\ initialized /\ ~timer_running /\ tpc # "t_none"
    /\ \E id \in Ids : channels[id].active /\ next_timeout_channel = id

\* C17: the step in which the sweep has handled an expired channel leaves
\* the slot inactive with period 0, no callback, no user_data and no
\* deadline; and in every state of an initialized context every inactive
\* slot holds period 0, no callback, no user_data and no deadline (0 or
\* INT64_MAX).
InactiveSlotHoldsNothing ==
    [][/\ (tpc = "t_cb" /\ tpc' = "t_scan")
              => /\ ~channels'[tid].active
                 /\ channels'[tid].reload_period = 0
                 /\ channels'[tid].callback = NULL
                 /\ channels'[tid].user_data = NULL
                 /\ channels'[tid].timeout_abs_ticks \in {0, INT64_MAX}
       /\ initialized'
              => \A id \in Ids :
                     ~channels'[id].active
                         => /\ channels'[id].reload_period = 0
                            /\ channels'[id].callback = NULL
                            /\ channels'[id].user_data = NULL
                            /\ channels'[id].timeout_abs_ticks \in {0, INT64_MAX}]_vars

\* C18: whenever the context is initialized and no operation and no sweep is
\* in progress, next_timeout_channel is the active channel with the lowest
\* deadline (the lowest id among equals) and next_timeout_ticks is that
\* deadline, and they are -1 and INT64_MAX exactly when no channel is active.
CachedDeadlineIsEarliest ==
    (/\ initialized /\ ~exited
     /\ \A c \in Threads : pc[c] \in {"idle", "ret"}
     /\ ~SweepRunning /\ mutex = "free")
        => /\ next_timeout_channel = watchdog_get_next_timeout_channel(channels)
           /\ next_timeout_ticks =
                  ScheduledTicks(channels, watchdog_get_next_timeout_channel(channels))
           /\ next_timeout_channel = -1 <=> \A id \in Ids : ~channels[id].active
           /\ next_timeout_channel # -1
                  => /\ next_timeout_channel \in Ids
                     /\ channels[next_timeout_channel].active
                     /\ \A id \in Ids :
                            channels[id].active
                                => \/ channels[id].timeout_abs_ticks > next_timeout_ticks
                                   \/ /\ channels[id].timeout_abs_ticks = next_timeout_ticks
                                      /\ id >= next_timeout_channel

\* C19: every step that writes the deadline of a channel that is active
\* before and after the step (a feed or a resume within one activation)
\* stores a value that is not below the value it replaces.
DeadlineNeverDecreases ==
    [][\A id \in Ids :
           (channels[id].active /\ channels'[id].active)
               => channels'[id].timeout_abs_ticks >= channels[id].timeout_abs_ticks]_vars

\* C20: every call of add, delete, feed, suspend or resume that has started
\* eventually returns, also when a callback run by the sweep calls one of
\* these functions.
EveryCallReturns ==
    \A c \in Callers : (pc[c] \in {"lock", "f_write", "f_sched"}) ~> (pc[c] = "ret")

\* C21: an init that returns an error leaves the context uninitialized, so
\* that a following add, feed or delete fails and a following init sets the
\* context up again; the initialized flag is set only by an init that returns
\* success and there is a timer thread whenever it is set.
FailedInitLeavesUninitialized ==
    [][/\ \A c \in Threads :
              /\ (Returns(c, "init") /\ loc'[c].res # 0) => ~initialized'
              /\ (~initialized /\ initialized')
                     => \E d \in Threads : Returns(d, "init") /\ loc'[d].res = 0
       /\ initialized' => tpc' # "t_none"]_vars

\* C22: within one sweep the clock reading does not change and the slots are
\* visited in increasing id order; when the callback of a slot is invoked,
\* every lower slot that was expired at the clock reading (and not written by
\* a feed during the sweep) has been fired once and is inactive, every higher
\* one is still active and not fired, and the slot's own deadline is not
\* above the clock reading; when the sweep ends all of them have been fired
\* once and are inactive.
ExpiredFireInIdOrder ==
    [][/\ (SweepRunning /\ SweepRunning') => tcur' = tcur /\ tid' >= tid
       /\ Invoked
              => /\ fires'[tid] = 1
                 /\ channels[tid].timeout_abs_ticks <= tcur \/ tid \in touched
                 /\ \A id \in due \ touched :
                        /\ id < tid => fires[id] = 1 /\ ~channels[id].active
                        /\ id > tid => fires[id] = 0 /\ channels[id].active
       /\ (tpc = "t_scan" /\ tpc' = "t_idle")
              => \A id \in due \ touched : fires[id] = 1 /\ ~channels'[id].active]_vars

\* C22 witness: a sweep at its end has fired both channels, which were both
\* expired at its clock reading, once each; the clock has moved on since.
BothChannelsFiredInOneSweep ==
    /\ tpc = "t_scan" /\ tid >= WATCHDOG_MAX_CHANNELS
    /\ due = Ids /\ touched = {}
    /\ \A id \in Ids : fires[id] = 1 /\ ~channels[id].active
    /\ now > tcur

\* C23: a step of the timer thread changes the context only inside a sweep;
\* a sweep starts only with the context initialized and monitoring enabled,
\* and these two flags stay as they are during the sweep; the sweep takes a
\* slot in hand only if it is active with a deadline not above the sweep's
\* clock reading, and a step of the sweep changes no slot but the one in
\* hand, and activates none.
SweepChangesOnlyExpired ==
    [][/\ (pc' = pc /\ loc' = loc /\ ~SweepRunning) => UNCHANGED ctx
       /\ SweepRunning' => initialized' /\ timer_running'
       /\ (tpc = "t_scan" /\ tpc' = "t_timeout")
              => /\ channels[tid].active
                 /\ channels[tid].timeout_abs_ticks <= tcur
       /\ (SweepRunning /\ pc' = pc /\ loc' = loc)
              => /\ initialized' = initialized /\ timer_running' = timer_running
                 /\ \A id \in Ids :
                        /\ ~channels[id].active => ~channels'[id].active
                        /\ ~(tpc \in {"t_timeout", "t_cb"} /\ id = tid)
                               => channels'[id] = channels[id]]_vars

\* C23 witness: a sweep at its end has fired one channel; the other channel
\* is active, its deadline is above the sweep's clock reading and has been
\* reached by the clock during the sweep.
LaterChannelLeftAlone ==
    /\ tpc = "t_scan" /\ tid >= WATCHDOG_MAX_CHANNELS
    /\ \E id \in Ids : fires[id] = 1 /\ ~channels[id].active
    /\ \E id \in Ids :
           /\ channels[id].active /\ fires[id] = 0 /\ id \notin touched
           /\ tcur < channels[id].timeout_abs_ticks
           /\ channels[id].timeout_abs_ticks <= now

\* C24: an add that returns id leaves in slot id the period, callback and
\* user_data it was called with and the deadline clock + period, whatever
\* the slot held before; while a slot stays active its period, callback and
\* user_data do not change; every callback call is the callback passed to
\* the add of the slot's current activation, called with the slot's id and
\* the user_data passed to that add.
CallbackOfCurrentActivation ==
    [][/\ \A c \in Threads :
              (Returns(c, "add") /\ loc'[c].res \in Ids)
                  => /\ channels'[loc'[c].res] =
                            [reload_period |-> loc'[c].p,
                             timeout_abs_ticks |-> FeedDeadline(now, loc'[c].p),
                             user_data |-> loc'[c].ud,
                             callback |-> loc'[c].cb,
                             active |-> TRUE]
                     /\ reg'[loc'[c].res] = [cb |-> loc'[c].cb, ud |-> loc'[c].ud]
       /\ \A id \in Ids :
              (channels[id].active /\ channels'[id].active)
                  => /\ channels'[id].reload_period = channels[id].reload_period
                     /\ channels'[id].callback = channels[id].callback
                     /\ channels'[id].user_data = channels[id].user_data
                     /\ reg'[id] = reg[id]
       /\ Invoked
              => /\ called'.id = tid
                 /\ called'.cb = reg[tid].cb /\ called'.cb # NULL
                 /\ called'.ud = reg[tid].ud]_vars

\* C24 witness: the callback of a slot is being called with the callback and
\* user_data of the add that has just reused the slot, which held the
\* deadline of an earlier activation; the new deadline is another one.
ReusedSlotCallsNewCallback ==
    /\ tpc = "t_cb" /\ called.id = tid
    /\ pc["main"] = "ret" /\ loc["main"].op = "add" /\ loc["main"].res = tid
    /\ loc["main"].old \notin {0, INT64_MAX}
    /\ called.cb = loc["main"].cb /\ called.ud = loc["main"].ud
    /\ channels[tid].timeout_abs_ticks # loc["main"].old

\* C25: with two threads adding and deleting side by side and the timer
\* thread sweeping, an add returns id only if slot id was not active just
\* before it was filled (so no earlier add's channel that is still active has
\* that id), it returns -1 only if every slot was active, at most one thread
\* is between the lock and the unlock of add and none during a sweep, and
\* the number of active slots never exceeds the capacity.
AddsNeverShareSlot ==
    [][/\ \A c \in Threads :
              /\ (pc[c] = "a_fill" /\ pc'[c] = "ret" /\ loc'[c].res \in Ids)
                     => /\ ~channels[loc'[c].res].active
                        /\ channels'[loc'[c].res].active
                        /\ \A id \in Ids :
                               id # loc'[c].res => channels'[id] = channels[id]
              /\ (pc[c] = "a_fill" /\ pc'[c] = "ret" /\ loc'[c].res \notin Ids)
                     => /\ loc'[c].res = -1
                        /\ \A id \in Ids : channels[id].active
                        /\ channels' = channels
              /\ pc'[c] \in {"a_find", "a_fill"}
                     => /\ mutex' = c /\ ~SweepRunning'
                        /\ \A d \in Threads \ {c} : pc'[d] \notin {"a_find", "a_fill"}
       /\ Cardinality({id \in Ids : channels'[id].active}) <= WATCHDOG_MAX_CHANNELS]_vars

\* C25 witness: the adds of the two threads have both returned, with
\* different ids, and both channels are active: the table is full.
ConcurrentAddsGotDistinctSlots ==
    /\ pc["main"] = "ret" /\ loc["main"].op = "add"
    /\ pc["task"] = "ret" /\ loc["task"].op = "add"
    /\ loc["main"].res \in Ids /\ loc["task"].res \in Ids
    /\ loc["main"].res # loc["task"].res
    /\ loc["task"].res < loc["main"].res
    /\ \A id \in Ids : channels[id].active

=============================================================================
